---- MODULE Spec2Model ----
(***************************************************************************)
(* Model of pycpd's RigidRegistration (src/pycpd/rigid_registration.py):   *)
(* the M-step of rigid Coherent Point Drift.  Floating point numbers are   *)
(* modelled by exact rationals <<n, d>> (d > 0, lowest terms), arrays by   *)
(* tuples of rows.                                                         *)
(***************************************************************************)
EXTENDS Integers, Sequences, FiniteSets, TLC

(***************************************************************************)
(* Exact rational arithmetic.                                              *)
(***************************************************************************)
IAbs(i) == IF i < 0 THEN -i ELSE i

RECURSIVE Gcd(_, _)
Gcd(a, b) == IF b = 0 THEN a ELSE Gcd(b, a % b)

Rat(n, d) ==
    IF n = 0 THEN <<0, 1>>
    ELSE IF d = 1 THEN <<n, 1>>
    ELSE LET g == Gcd(IAbs(n), IAbs(d))
         IN  IF d < 0 THEN <<-(n \div g), (-d) \div g>> ELSE <<n \div g, d \div g>>

Zero == <<0, 1>>
One == <<1, 1>>
Two == <<2, 1>>
RInt(i) == <<i, 1>>
RAdd(a, b) ==
    IF a[1] = 0 THEN b
    ELSE IF b[1] = 0 THEN a
    ELSE IF a[2] = b[2] THEN Rat(a[1] + b[1], a[2])
    ELSE LET g == Gcd(a[2], b[2])
         IN  Rat(a[1] * (b[2] \div g) + b[1] * (a[2] \div g), (a[2] \div g) * b[2])
RNeg(a) == <<-a[1], a[2]>>
RSub(a, b) == RAdd(a, RNeg(b))
RMul(a, b) ==
    IF a[1] = 0 \/ b[1] = 0 THEN Zero
    ELSE IF a[2] = 1 /\ b[2] = 1 THEN <<a[1] * b[1], 1>>
    ELSE LET g == Gcd(IAbs(a[1]), b[2])
             h == Gcd(IAbs(b[1]), a[2])
         IN  <<(a[1] \div g) * (b[1] \div h), (a[2] \div h) * (b[2] \div g)>>
RInv(a) == IF a[1] < 0 THEN <<-a[2], -a[1]>> ELSE <<a[2], a[1]>>
RDiv(a, b) == RMul(a, RInv(b))
RLe(a, b) == RSub(b, a)[1] >= 0
RLt(a, b) == RSub(b, a)[1] > 0
RPos(a) == a[1] > 0

\* np.abs
RAbs(a) == <<IAbs(a[1]), a[2]>>

\* the tuple <<F(1), ..., F(n)>>, n at most 4
Tab(n, F(_)) ==
    CASE n = 0 -> <<>>
      [] n = 1 -> <<F(1)>>
      [] n = 2 -> <<F(1), F(2)>>
      [] n = 3 -> <<F(1), F(2), F(3)>>
      [] n = 4 -> <<F(1), F(2), F(3), F(4)>>

RECURSIVE SumSeq(_)
SumSeq(v) ==
    IF Len(v) = 0 THEN Zero
    ELSE IF Len(v) = 1 THEN v[1]
    ELSE IF Len(v) = 2 THEN RAdd(v[1], v[2])
    ELSE RAdd(v[1], SumSeq(Tail(v)))

(***************************************************************************)
(* The numpy array operations the class uses.                              *)
(***************************************************************************)
Rows(m) == Len(m)
Cols(m) == Len(m[1])
\* np.transpose of a 2-d array
Transpose(m) == Tab(Cols(m), LAMBDA j : Tab(Rows(m), LAMBDA i : m[i][j]))
\* np.dot of two 2-d arrays
Dot(a, b) ==
    Tab(Rows(a), LAMBDA i : Tab(Cols(b), LAMBDA j : SumSeq(Tab(Rows(b), LAMBDA k : RMul(a[i][k], b[k][j])))))
\* np.dot of two 1-d arrays
VDot(u, v) == SumSeq(Tab(Len(u), LAMBDA k : RMul(u[k], v[k])))
\* np.dot of a 2-d array and a 1-d array
MatVec(m, v) == Tab(Rows(m), LAMBDA i : VDot(m[i], v))
\* np.sum(m, axis=0) and np.sum(m, axis=1)
SumAxis0(m) == Tab(Cols(m), LAMBDA j : SumSeq(Tab(Rows(m), LAMBDA i : m[i][j])))
SumAxis1(m) == Tab(Rows(m), LAMBDA i : SumSeq(m[i]))
\* np.multiply, elementwise
Multiply(a, b) == Tab(Rows(a), LAMBDA i : Tab(Cols(a), LAMBDA j : RMul(a[i][j], b[i][j])))
\* np.tile(v, (n, 1))
Tile(v, n) == Tab(n, LAMBDA i : v)
MatSub(a, b) == Tab(Rows(a), LAMBDA i : Tab(Cols(a), LAMBDA j : RSub(a[i][j], b[i][j])))
VecSub(u, v) == Tab(Len(u), LAMBDA k : RSub(u[k], v[k]))
VecScale(c, v) == Tab(Len(v), LAMBDA k : RMul(c, v[k]))
VecDivide(v, c) == Tab(Len(v), LAMBDA k : RDiv(v[k], c))
\* c * m + row, the row broadcast over the rows of m
ScaleAddRow(c, m, row) ==
    Tab(Rows(m), LAMBDA i : Tab(Cols(m), LAMBDA j : RAdd(RMul(c, m[i][j]), row[j])))
Trace(m) == SumSeq(Tab(Rows(m), LAMBDA i : m[i][i]))
Diag(v) == Tab(Len(v), LAMBDA i : Tab(Len(v), LAMBDA j : IF i = j THEN v[i] ELSE Zero))
Eye(n) == Tab(n, LAMBDA i : Tab(n, LAMBDA j : IF i = j THEN One ELSE Zero))
Zeros(r, c) == Tab(r, LAMBDA i : Tab(c, LAMBDA j : Zero))
Det2(m) == RSub(RMul(m[1][1], m[2][2]), RMul(m[1][2], m[2][1]))
Minor3(m, i, j) ==
    LET rs == IF i = 1 THEN <<2, 3>> ELSE IF i = 2 THEN <<1, 3>> ELSE <<1, 2>>
        cs == IF j = 1 THEN <<2, 3>> ELSE IF j = 2 THEN <<1, 3>> ELSE <<1, 2>>
    IN  Tab(2, LAMBDA a : Tab(2, LAMBDA b : m[rs[a]][cs[b]]))
\* np.linalg.det
Det(m) ==
    IF Rows(m) = 2 THEN Det2(m)
    ELSE RAdd(RSub(RMul(m[1][1], Det2(Minor3(m, 1, 1))),
                   RMul(m[1][2], Det2(Minor3(m, 1, 2)))),
              RMul(m[1][3], Det2(Minor3(m, 1, 3))))

(***************************************************************************)
(* np.log.  The logarithm is a library routine with irrational values; it  *)
(* is modelled by the monotone piecewise-linear interpolant of ln through  *)
(* the powers of two: Log2Lin(2^k * m) = k + (m - 1) for 1 <= m < 2,       *)
(* scaled by Ln2 ~ ln 2.  Log(1) = 0, Log is strictly increasing.          *)
(***************************************************************************)
Ln2 == <<7, 10>>

RECURSIVE Log2Lin(_)
Log2Lin(x) ==
    IF RLe(Two, x) THEN RAdd(One, Log2Lin(RDiv(x, Two)))
    ELSE IF RLt(x, One) THEN RSub(Log2Lin(RMul(x, Two)), One)
    ELSE RSub(x, One)

Log(x) == RMul(Ln2, Log2Lin(x))

(***************************************************************************)
(* np.linalg.svd(A, full_matrices=True).  The routine returns some         *)
(* factorisation A = U * diag(S) * Vh with U, Vh orthogonal and S          *)
(* nonnegative and descending; which one is the backend's choice.  The     *)
(* model draws U and Vh from the signed permutation matrices, which are    *)
(* the orthogonal matrices that factor the cross-covariance matrices of    *)
(* the clouds below.  U, Vh and what is computed from them alone have      *)
(* integer entries (IntDot, IntDet); ToRat converts.                       *)
(***************************************************************************)
Perms(n) == {p \in [1..n -> 1..n] : \A i, j \in 1..n : p[i] = p[j] => i = j}

SignedPerms(n) ==
    {Tab(n, LAMBDA i : Tab(n, LAMBDA j : IF p[i] = j THEN sg[i] ELSE 0)) :
        p \in Perms(n), sg \in [1..n -> {1, -1}]}

Ortho2 == SignedPerms(2)
\* in three dimensions, those among them that are diagonal
Ortho3 == {U \in SignedPerms(3) : \A i \in 1..3 : U[i][i] # 0}
Ortho(n) == IF n = 2 THEN Ortho2 ELSE Ortho3

RECURSIVE ISum(_)
ISum(v) == IF Len(v) = 0 THEN 0 ELSE v[1] + ISum(Tail(v))
IntDot(a, b) ==
    Tab(Rows(a), LAMBDA i : Tab(Cols(b), LAMBDA j : ISum(Tab(Rows(b), LAMBDA k : a[i][k] * b[k][j]))))
IntDet2(m) == m[1][1] * m[2][2] - m[1][2] * m[2][1]
IntDet(m) ==
    IF Rows(m) = 2 THEN IntDet2(m)
    ELSE m[1][1] * IntDet2(Minor3(m, 1, 1)) - m[1][2] * IntDet2(Minor3(m, 1, 2))
         + m[1][3] * IntDet2(Minor3(m, 1, 3))
IntDiag(v) == Tab(Len(v), LAMBDA i : Tab(Len(v), LAMBDA j : IF i = j THEN v[i] ELSE 0))
ToRat(m) == Tab(Rows(m), LAMBDA i : Tab(Cols(m), LAMBDA j : RInt(m[i][j])))

\* the column of the entry of row i of a signed permutation matrix, and
\* the row of the entry of its column j
ColOf(U, i) == CHOOSE j \in 1..Rows(U) : U[i][j] # 0
RowOf(U, j) == CHOOSE i \in 1..Rows(U) : U[i][j] # 0
RSigned(k, r) == IF k = 0 \/ r[1] = 0 THEN Zero ELSE <<k * r[1], r[2]>>

\* the singular values A has if it is U * diag(S) * Vh
Singular(A, U, Vh) == Tab(Rows(A), LAMBDA j : RAbs(A[RowOf(U, j)][ColOf(Vh, j)]))

\* A = U * diag(S) * Vh with S = Singular(A, U, Vh) nonnegative and
\* descending: entry (i, l) of the product is U[i][c] * S[c] * Vh[c][l], c the
\* column of row i of U
Factors(A, U, Vh) ==
    /\ \A i \in 1..Rows(A) : \A l \in 1..Rows(A) :
        LET k == U[i][ColOf(U, i)] * Vh[ColOf(U, i)][l]
        IN  IF k = 0 THEN A[i][l][1] = 0
            ELSE A[i][l][1] = 0 \/ (A[i][l][1] > 0) = (k > 0)
    /\ \A j \in 1..(Rows(A) - 1) :
        RLe(Singular(A, U, Vh)[j + 1], Singular(A, U, Vh)[j])

\* the set of <<U, S, Vh>> the decomposition may return for A
Svd(A) ==
    {<<f[1], Singular(A, f[1], f[2]), f[2]>> :
        f \in {g \in Ortho(Rows(A)) \X Ortho(Rows(A)) : Factors(A, g[1], g[2])}}

(***************************************************************************)
(* Inputs.  Point clouds of two points whose separation lies along an      *)
(* axis; constructor arguments; the correspondence matrices the E-step     *)
(* hands over.                                                             *)
(***************************************************************************)
Pt2(a, b) == <<RInt(a), RInt(b)>>
Pt3(a, b, c) == <<RInt(a), RInt(b), RInt(c)>>

CloudA == <<Pt2(0, 0), Pt2(1, 0)>>
CloudB == <<Pt2(1, 1), Pt2(1, 3)>>
\* a triangle and its mirror image
CloudE == <<Pt2(1, 0), Pt2(-1, 0), Pt2(0, 1)>>
CloudF == <<Pt2(-1, 0), Pt2(1, 0), Pt2(0, 1)>>
CloudC3 == <<Pt3(1, 0, 0), Pt3(0, 0, 0), Pt3(-1, 0, 0)>>
CloudD3 == <<Pt3(2, 1, 0), Pt3(0, 1, 0), Pt3(-2, 1, 0)>>
Cloud1 == <<<<Zero>>, <<One>>>>
Cloud4 == <<<<Zero, Zero, Zero, Zero>>, <<One, Zero, Zero, Zero>>>>

\* the (X, Y) a registration is constructed on
CloudPairs ==
    {<<CloudA, CloudB>>, <<CloudE, CloudF>>, <<CloudC3, CloudD3>>,
     <<Cloud1, Cloud1>>, <<Cloud4, Cloud4>>}

NoArray == [kind |-> "none", shape |-> <<>>, data |-> <<>>]
Array(shape, data) == [kind |-> "array", shape |-> shape, data |-> data]
Rot345 == <<<<<<3, 5>>, <<-4, 5>>>>, <<<<4, 5>>, <<3, 5>>>>>>
NegEye(n) == Tab(n, LAMBDA i : Tab(n, LAMBDA j : IF i = j THEN RNeg(One) ELSE Zero))
Rot3 == <<<<<<3, 5>>, <<-4, 5>>, Zero>>, <<<<4, 5>>, <<3, 5>>, Zero>>, <<Zero, Zero, One>>>>

\* arrays offered as seed R: an orthogonal matrix that passes the check,
\* an orthogonal one that does not (a half turn), a vector
SeedsR(n) ==
    {Array(<<n, n>>, IF n = 2 THEN Rot345 ELSE IF n = 3 THEN Rot3 ELSE Eye(n)),
     Array(<<n, n>>, NegEye(n)),
     Array(<<n>>, <<Tab(n, LAMBDA j : One)>>)}

\* arrays offered as seed t: a row, a column
SeedsT(n) ==
    {Array(<<1, n>>, <<Tab(n, LAMBDA j : IF j = 1 THEN One ELSE Zero)>>),
     Array(<<n, 1>>, Tab(n, LAMBDA j : <<One>>))}

NoScalar == [kind |-> "none", val |-> Zero]
Number(r) == [kind |-> "number", val |-> r]
\* values offered as seed s
SeedsS == {Number(Two), Number(Zero), Number(RInt(-1)), [kind |-> "str", val |-> Zero]}

\* the (R, t, s) a registration is constructed with: none of them, all of
\* them
Seeds(n) ==
    {<<NoArray, NoArray, NoScalar>>} \cup (SeedsR(n) \X SeedsT(n) \X SeedsS)

\* the correspondence matrices (M x N) the E-step may produce
PSet(m, n) ==
    IF m = 2
    THEN {<<<<One, Zero>>, <<Zero, One>>>>,
          <<<<<<1, 4>>, <<1, 2>>>>, <<<<1, 2>>, <<1, 4>>>>>>}
    ELSE {Eye(3)}

Undef == <<>>

(***************************************************************************)
(* State: the attributes of a RigidRegistration instance (those of the     *)
(* EMRegistration base included), the outcome of the constructor call and  *)
(* its arguments, and the last call made with its argument and return      *)
(* value.  seq and est are history variables: how far the driver order     *)
(* update_transform, transform_point_cloud(), update_variance has been     *)
(* followed, and the parameters the last update_transform produced.        *)
(***************************************************************************)
VARIABLES status, err, args, D, N, M, X, Y, TY, sigma2, tolerance, q, diff,
          iteration, P, P1, Pt1, PX, Np, R, t, s, do_scale, do_rot, do_trans,
          X_hat, YPY, A, call, seq, est

base == <<D, N, M, X, Y, tolerance>>
stats == <<P, P1, Pt1, PX, Np>>
toggles == <<do_scale, do_rot, do_trans>>
vars == <<status, err, args, D, N, M, X, Y, TY, sigma2, tolerance, q, diff,
          iteration, P, P1, Pt1, PX, Np, R, t, s, do_scale, do_rot, do_trans,
          X_hat, YPY, A, call, seq, est>>

MaxIter == 1

NoRet == [kind |-> "none", cloud |-> Undef, s |-> Undef, R |-> Undef, t |-> Undef]
Call(op, arg, ret) == [op |-> op, arg |-> arg, ret |-> ret]

(***************************************************************************)
(* EMRegistration, the base class: its constructor's effect and the        *)
(* E-step.                                                                 *)
(***************************************************************************)
\* the convergence threshold the run is configured with
Tolerance == <<5, 64>>
InitSigma2 == One
InitQ == Zero
InitDiff == Zero

\* expectation(): new correspondence statistics for the iteration
expectation ==
    /\ status = "ok"
    /\ iteration < MaxIter
    /\ \E Pm \in PSet(M, N) :
        /\ P' = Pm
        /\ P1' = SumAxis1(Pm)
        /\ Pt1' = SumAxis0(Pm)
        /\ Np' = SumSeq(SumAxis1(Pm))
        /\ PX' = Dot(Pm, X)
    /\ iteration' = iteration + 1
    /\ call' = Call("expectation", Undef, NoRet)
    /\ seq' = 0
    /\ UNCHANGED <<status, err, args, base, TY, sigma2, q, diff, R, t, s, toggles,
                   X_hat, YPY, A, est>>

(***************************************************************************)
(* RigidRegistration.__init__                                              *)
(***************************************************************************)
\* utility.is_positive_semi_definite: every principal minor of the
\* symmetric part is nonnegative
IsPositiveSemiDefinite(m) ==
    LET n == Rows(m)
        sym == Tab(n, LAMBDA i : Tab(n, LAMBDA j : RDiv(RAdd(m[i][j], m[j][i]), Two)))
    IN  /\ \A i \in 1..n : RLe(Zero, sym[i][i])
        /\ n = 2 => RLe(Zero, Det2(sym))
        /\ n = 3 => /\ \A i \in 1..3 : RLe(Zero, Det2(Minor3(sym, i, i)))
                    /\ RLe(Zero, Det(sym))
        /\ n \in {1, 2, 3}

BadD(d) == d # 2 /\ d # 3

BadR(R0, d) ==
    /\ R0.kind # "none"
    /\ \/ Len(R0.shape) # 2
       \/ R0.shape[1] # d
       \/ R0.shape[2] # d
       \/ ~IsPositiveSemiDefinite(R0.data)

BadT(t0, d) ==
    /\ t0.kind # "none"
    /\ \/ Len(t0.shape) # 2
       \/ t0.shape[1] # 1
       \/ t0.shape[2] # d

BadS(s0) == s0.kind # "none" /\ (s0.kind # "number" \/ RLe(s0.val, Zero))

AnyToggleAlways(sc, ro, tr) == TRUE
AnyToggle(sc, ro, tr) == sc \/ ro \/ tr

\* the exception the constructor raises on these arguments, "" if none
InitError(a) ==
    LET d == Cols(a.X)
    IN  IF BadD(d) THEN "ValueError: D"
        ELSE IF BadR(a.R, d) THEN "ValueError: R"
        ELSE IF BadT(a.t, d) THEN "ValueError: t"
        ELSE IF BadS(a.s) THEN "ValueError: s"
        ELSE IF ~AnyToggle(a.do_scale, a.do_rot, a.do_trans) THEN "AssertionError"
        ELSE ""

Row2d(row) == [shape |-> <<1, Len(row)>>, row |-> row]
Row1d(row) == [shape |-> <<Len(row)>>, row |-> row]
NoRow == [shape |-> <<>>, row |-> <<>>]

SeedRIgnored(R0, d) == Eye(d)
SeedR(R0, d) == IF R0.kind = "none" THEN Eye(d) ELSE R0.data
SeedT(t0, d) == IF t0.kind = "none" THEN Row2d(Zeros(1, d)[1]) ELSE Row2d(t0.data[1])
SeedS(s0) == IF s0.kind = "none" THEN One ELSE s0.val

ArgsFor(c) ==
    {[X |-> c[1], Y |-> c[2], R |-> sd[1], t |-> sd[2], s |-> sd[3],
      do_scale |-> sc, do_rot |-> ro, do_trans |-> tr] :
        sd \in Seeds(Cols(c[1])), sc \in BOOLEAN, ro \in BOOLEAN, tr \in BOOLEAN}

Construct ==
    /\ status = "new"
    /\ \E c \in CloudPairs : \E a \in ArgsFor(c) :
        /\ args' = a
        /\ err' = InitError(a)
        /\ IF InitError(a) # ""
           THEN /\ status' = "failed"
                /\ UNCHANGED <<base, TY, sigma2, q, diff, R, t, s, toggles>>
           ELSE /\ status' = "ok"
                /\ D' = Cols(a.X)
                /\ N' = Rows(a.X)
                /\ M' = Rows(a.Y)
                /\ X' = a.X
                /\ Y' = a.Y
                /\ TY' = a.Y
                /\ sigma2' = InitSigma2
                /\ tolerance' = Tolerance
                /\ q' = InitQ
                /\ diff' = InitDiff
                /\ R' = SeedR(a.R, Cols(a.X))
                /\ t' = SeedT(a.t, Cols(a.X))
                /\ s' = SeedS(a.s)
                /\ do_scale' = a.do_scale
                /\ do_rot' = a.do_rot
                /\ do_trans' = a.do_trans
    /\ call' = Call("__init__", Undef, NoRet)
    /\ UNCHANGED <<iteration, stats, X_hat, YPY, A, seq, est>>

NoArgs ==
    [X |-> Undef, Y |-> Undef, R |-> NoArray, t |-> NoArray, s |-> NoScalar,
     do_scale |-> FALSE, do_rot |-> FALSE, do_trans |-> FALSE]

Init ==
    /\ status = "new" /\ err = "" /\ args = NoArgs
    /\ D = 0 /\ N = 0 /\ M = 0 /\ X = Undef /\ Y = Undef /\ TY = Undef
    /\ sigma2 = Undef /\ tolerance = Undef /\ q = Undef /\ diff = Undef
    /\ iteration = 0
    /\ P = Undef /\ P1 = Undef /\ Pt1 = Undef /\ PX = Undef /\ Np = Undef
    /\ R = Undef /\ t = NoRow /\ s = Undef
    /\ do_scale = FALSE /\ do_rot = FALSE /\ do_trans = FALSE
    /\ X_hat = Undef /\ YPY = Undef /\ A = Undef
    /\ call = Call("", Undef, NoRet) /\ seq = 0
    /\ est = [s |-> Undef, R |-> Undef, t |-> NoRow]

(***************************************************************************)
(* RigidRegistration.update_transform                                      *)
(***************************************************************************)
MuXPlain(PXm, Xm, Npv) == VecDivide(SumAxis0(Xm), Npv)
\* target point cloud mean; Xm, the target cloud itself, is not read
MuX(PXm, Xm, Npv) == VecDivide(SumAxis0(PXm), Npv)
\* source point cloud mean
MuY(Pm, Ym, Npv) == VecDivide(SumAxis0(Dot(Transpose(Pm), Ym)), Npv)
Centred(cloud, mu, n) == MatSub(cloud, Tile(mu, n))
Ypy(P1v, Y_hat) == VDot(P1v, SumAxis1(Multiply(Y_hat, Y_hat)))
CrossCov(Xh, Pm, Y_hat) == Dot(Dot(Transpose(Xh), Transpose(Pm)), Y_hat)

CorrectionOnes(U, V, d) == Tab(d, LAMBDA i : 1)
Correction(U, V, d) == Tab(d, LAMBDA i : IF i = d THEN IntDet(IntDot(U, V)) ELSE 1)

Rotation(U, C, V) == ToRat(Transpose(IntDot(IntDot(U, IntDiag(C)), V)))
\* the rotations Eq. 9 gives over the factorisations of Am
Rotations(Am, d) ==
    {Rotation(f[1], Correction(f[1], f[3], d), f[3]) : f \in Svd(Am)}
Scale(Am, Rm, ypy) == RDiv(Trace(Dot(Transpose(Am), Transpose(Rm))), ypy)
Translation(muX, sv, Rm, muY) ==
    Row1d(VecSub(muX, VecScale(sv, MatVec(Transpose(Rm), muY))))

NextR(enabled, Rold, Rnew) == IF enabled THEN Rnew ELSE Rold
NextSAlways(enabled, sold, snew) == snew
NextS(enabled, sold, snew) == IF enabled = TRUE THEN snew ELSE sold
NextT(enabled, told, tnew) == IF enabled THEN tnew ELSE told

update_transform ==
    /\ status = "ok"
    /\ P # Undef
    /\ LET muX == MuX(PX, X, Np)
           muY == MuY(P, Y, Np)
           Xh == Centred(X, muX, N)
           Y_hat == Centred(Y, muY, M)
           ypy == Ypy(P1, Y_hat)
           Am == CrossCov(Xh, P, Y_hat)
       IN  \E Rnew \in Rotations(Am, D) :
            LET Rn == NextR(do_rot, R, Rnew)
                sn == NextS(do_scale, s, Scale(Am, Rn, ypy))
                tn == NextT(do_trans, t, Translation(muX, sn, Rn, muY))
            IN  /\ X_hat' = Xh
                /\ YPY' = ypy
                /\ A' = Am
                /\ R' = Rn
                /\ s' = sn
                /\ t' = tn
                /\ est' = [s |-> sn, R |-> Rn, t |-> tn]
    /\ call' = Call("update_transform", Undef, NoRet)
    /\ seq' = 1
    /\ UNCHANGED <<status, err, args, base, TY, sigma2, q, diff, iteration, stats,
                   toggles>>

(***************************************************************************)
(* RigidRegistration.transform_point_cloud                                 *)
(***************************************************************************)
TransformedNoT(sv, cloud, Rm, tv) == ScaleAddRow(sv, Dot(cloud, Rm), Zeros(1, Cols(cloud))[1])
Transformed(sv, cloud, Rm, tv) == ScaleAddRow(sv, Dot(cloud, Rm), tv.row)

\* transform_point_cloud(): Y is None
transform_point_cloud ==
    /\ status = "ok"
    /\ TY' = Transformed(s, Y, R, t)
    /\ call' = Call("transform_point_cloud", Undef, NoRet)
    /\ seq' = IF seq \in {1, 2} THEN 2 ELSE 0
    /\ UNCHANGED <<status, err, args, base, sigma2, q, diff, iteration, stats, R, t, s,
                   toggles, X_hat, YPY, A, est>>

\* the clouds handed to transform_point_cloud(Y)
ArgClouds(d) ==
    IF d = 2 THEN {<<Pt2(2, -1), Pt2(0, 3)>>} ELSE {<<Pt3(2, -1, 1)>>}

transform_point_cloud_of_storing ==
    /\ status = "ok"
    /\ \E cloud \in ArgClouds(D) :
        /\ call' = Call("transform_point_cloud(Y)", cloud,
                        [NoRet EXCEPT !.kind = "cloud",
                                      !.cloud = Transformed(s, cloud, R, t)])
        /\ TY' = Transformed(s, cloud, R, t)
    /\ UNCHANGED <<status, err, args, base, sigma2, q, diff, iteration, stats, R, t,
                   s, toggles, X_hat, YPY, A, seq, est>>

\* transform_point_cloud(Y): Y is a point cloud
transform_point_cloud_of ==
    /\ status = "ok"
    /\ \E cloud \in ArgClouds(D) :
        /\ call' = Call("transform_point_cloud(Y)", cloud,
                        [NoRet EXCEPT !.kind = "cloud",
                                      !.cloud = Transformed(s, cloud, R, t)])
    /\ UNCHANGED <<status, err, args, base, TY, sigma2, q, diff, iteration, stats, R, t,
                   s, toggles, X_hat, YPY, A, seq, est>>

(***************************************************************************)
(* RigidRegistration.update_variance                                       *)
(***************************************************************************)
TrAR(Am, Rm) == Trace(Dot(Am, Rm))
XPX(Pt1v, Xh) == VDot(Pt1v, SumAxis1(Multiply(Xh, Xh)))

Objective(xPx, sv, trAR, ypy, sig, d, Npv) ==
    RAdd(RDiv(RAdd(RSub(xPx, RMul(RMul(Two, sv), trAR)), RMul(RMul(sv, sv), ypy)),
              RMul(Two, sig)),
         RMul(RDiv(RMul(RInt(d), Npv), Two), Log(sig)))

DiffSigned(qnew, qprev) == RSub(qnew, qprev)
Diff(qnew, qprev) == RAbs(RSub(qnew, qprev))

RawSigma2(xPx, sv, trAR, Npv, d) == RDiv(RSub(xPx, RMul(sv, trAR)), RMul(Npv, RInt(d)))

FlooredStrict(raw, tol) == IF RLt(raw, Zero) THEN RDiv(tol, RInt(10)) ELSE raw
Floored(raw, tol) == IF RLe(raw, Zero) THEN RDiv(tol, RInt(10)) ELSE raw

update_variance ==
    /\ status = "ok"
    /\ A # Undef
    /\ LET qprev == q
           trAR == TrAR(A, R)
           xPx == XPX(Pt1, X_hat)
           qn == Objective(xPx, s, trAR, YPY, sigma2, D, Np)
       IN  /\ q' = qn
           /\ diff' = Diff(qn, qprev)
           /\ sigma2' = Floored(RawSigma2(xPx, s, trAR, Np, D), tolerance)
    /\ call' = Call("update_variance", Undef, NoRet)
    /\ seq' = IF seq = 2 THEN 3 ELSE 0
    /\ UNCHANGED <<status, err, args, base, TY, iteration, stats, R, t, s, toggles,
                   X_hat, YPY, A, est>>

(***************************************************************************)
(* RigidRegistration.get_registration_parameters                           *)
(***************************************************************************)
Parameters(sv, Rm, tv) == [NoRet EXCEPT !.kind = "parameters", !.s = sv, !.R = Rm, !.t = tv]

get_registration_parameters ==
    /\ status = "ok"
    /\ call' = Call("get_registration_parameters", Undef, Parameters(s, R, t))
    /\ UNCHANGED <<status, err, args, base, TY, sigma2, q, diff, iteration, stats, R, t,
                   s, toggles, X_hat, YPY, A, seq, est>>

Next ==
    \/ Construct
    \/ expectation
    \/ update_transform
    \/ transform_point_cloud
    \/ transform_point_cloud_of
    \/ update_variance
    \/ get_registration_parameters

Spec == Init /\ [][Next]_vars

(***************************************************************************)
(* Properties.  The quantities they speak of are written out here entry by *)
(* entry, not through the operators the operations are built from.         *)
(***************************************************************************)
Called(op) == call.op = op
Constructed == status = "ok"

\* s * cloud * R + row, entry by entry
AffineImage(cloud, sv, Rm, row) ==
    Tab(Rows(cloud), LAMBDA i : Tab(Cols(cloud), LAMBDA j :
        RAdd(RMul(sv, SumSeq(Tab(Cols(cloud), LAMBDA k : RMul(cloud[i][k], Rm[k][j])))),
             row[j])))

\* sum over the points of a cloud of weight[n] * cloud[n], divided by total
WeightedMean(weight, cloud, total) ==
    Tab(Cols(cloud), LAMBDA j :
        RDiv(SumSeq(Tab(Rows(cloud), LAMBDA n : RMul(weight[n], cloud[n][j]))), total))

\* sum over the points of a cloud of weight[n] * |cloud[n]|^2
WeightedSquares(weight, cloud) ==
    SumSeq(Tab(Rows(cloud), LAMBDA n :
        RMul(weight[n], SumSeq(Tab(Cols(cloud), LAMBDA j : RMul(cloud[n][j], cloud[n][j]))))))

\* sum over i, j of a[i][j] * b[j][i], the trace of a * b
TraceOfProduct(a, b) ==
    SumSeq(Tab(Rows(a), LAMBDA i : SumSeq(Tab(Cols(a), LAMBDA j : RMul(a[i][j], b[j][i])))))

IsProperRotation(Rm) ==
    /\ \A i, j \in 1..Rows(Rm) :
        SumSeq(Tab(Rows(Rm), LAMBDA k : RMul(Rm[k][i], Rm[k][j])))
            = IF i = j THEN One ELSE Zero
    /\ Det(Rm) = One

IsOrthogonal(Rm) ==
    \A i, j \in 1..Rows(Rm) :
        SumSeq(Tab(Rows(Rm), LAMBDA k : RMul(Rm[k][i], Rm[k][j])))
            = IF i = j THEN One ELSE Zero

\* the variance the update rule gives on the current state, before flooring
RawVariance ==
    RDiv(RSub(WeightedSquares(Pt1, X_hat), RMul(s, TraceOfProduct(A, R))),
         RMul(Np, RInt(D)))

\* C1: after every update_variance() sigma2 is strictly positive: it is
\* tolerance/10 (tolerance positive) when the raw value
\* (xPx - s*trAR)/(Np*D) is zero or negative, and the raw value otherwise;
\* sigma2 is positive in every state of a constructed registration.
C1_Sigma2Positive ==
    /\ Constructed => RPos(sigma2) /\ RPos(tolerance)
    /\ Called("update_variance") =>
        sigma2 = IF RawVariance[1] <= 0 THEN RDiv(tolerance, RInt(10)) ELSE RawVariance

\* update_variance() has just floored a raw value that was not positive
C1_Witness ==
    /\ Called("update_variance")
    /\ RawVariance[1] <= 0
    /\ sigma2 = RDiv(tolerance, RInt(10))

\* C2: an update_transform() call leaves s as it was when do_scale is
\* disabled, R when do_rot is disabled, t when do_trans is disabled; over a
\* whole run a disabled component keeps its construction-time seed or
\* default.
C2_DisabledHeld ==
    /\ [][Called("update_transform")' =>
            /\ ~do_scale => s' = s
            /\ ~do_rot => R' = R
            /\ ~do_trans => t' = t]_vars
    /\ [](Constructed =>
            /\ ~do_scale => s = (IF args.s.kind = "none" THEN One ELSE args.s.val)
            /\ ~do_rot => R = (IF args.R.kind = "none" THEN Eye(D) ELSE args.R.data)
            /\ ~do_trans =>
                t.row = (IF args.t.kind = "none" THEN Zeros(1, D)[1] ELSE args.t.data[1]))

\* update_transform() has changed R and t and held the seeded scale
C2_Witness ==
    /\ Called("update_transform")
    /\ ~do_scale /\ do_rot /\ do_trans
    /\ args.s.kind = "number" /\ s = args.s.val
    /\ args.R.kind = "array" /\ R # args.R.data
    /\ args.t.kind = "array" /\ t.row # args.t.data[1]

\* C3: the scale s is strictly positive in every state of a constructed
\* registration, under every combination of toggles.
C3_ScalePositive == Constructed => RPos(s)

\* C4: transform_point_cloud(cloud) returns s*cloud*R + t for the current
\* s, R, t and leaves every attribute as it was.
C4_PureTransform ==
    [][Called("transform_point_cloud(Y)")' =>
        /\ call'.ret.kind = "cloud"
        /\ call'.ret.cloud = AffineImage(call'.arg, s, R, t.row)
        /\ UNCHANGED <<R, t, s, TY, Y, sigma2, q, diff, A, X_hat, YPY>>
        /\ UNCHANGED <<status, err, args, base, iteration, stats, toggles>>]_vars

\* transform_point_cloud(cloud) has returned the image of a cloud under
\* parameters that update_transform() produced
C4_Witness ==
    /\ Called("transform_point_cloud(Y)")
    /\ A # Undef
    /\ call.ret.cloud = AffineImage(call.arg, s, R, t.row)
    /\ call.ret.cloud # call.arg
    /\ TY # call.ret.cloud

\* C5: transform_point_cloud() returns nothing and sets TY to s*Y*R + t for
\* the current s, R, t, changing nothing else; no call other than
\* update_transform() and transform_point_cloud() changes TY, Y, s, R or t,
\* so TY equals s*Y*R + t from that call until the next update_transform(),
\* which leaves TY as it was (stale).
C5_StoredTransform ==
    [][/\ Called("transform_point_cloud")' =>
            /\ TY' = AffineImage(Y, s, R, t.row)
            /\ call'.ret.kind = "none"
            /\ UNCHANGED <<R, t, s, Y, sigma2, q, diff, A, X_hat, YPY>>
            /\ UNCHANGED <<status, err, args, base, iteration, stats, toggles>>
       /\ (Constructed /\ ~Called("update_transform")'
                /\ ~Called("transform_point_cloud")') =>
            UNCHANGED <<TY, Y, s, R, t>>
       /\ Called("update_transform")' => TY' = TY]_vars

\* transform_point_cloud() has stored the image of Y under parameters that
\* update_transform() produced
C5_Witness ==
    /\ Called("transform_point_cloud")
    /\ seq = 2
    /\ TY = AffineImage(Y, s, R, t.row)
    /\ TY # Y

\* the seeds are an orthogonal D x D matrix, a 1 x D vector and a positive
\* number, on clouds of dimension 2 or 3 with some toggle enabled
OrthogonalSeeds(a) ==
    /\ Cols(a.X) \in {2, 3}
    /\ a.R.kind = "array" /\ a.R.shape = <<Cols(a.X), Cols(a.X)>> /\ IsOrthogonal(a.R.data)
    /\ a.t.kind = "array" /\ a.t.shape = <<1, Cols(a.X)>>
    /\ a.s.kind = "number" /\ RPos(a.s.val)
    /\ a.do_scale \/ a.do_rot \/ a.do_trans

\* C6 as stated: given an explicit orthogonal seed R0, a seed t0 and a
\* positive seed s0, construction succeeds.
C6_OrthogonalSeedAccepted ==
    (Called("__init__") /\ OrthogonalSeeds(args)) => Constructed

\* the seed R is a D x D matrix whose symmetric part has no negative
\* principal minor
PassesCheck(a) ==
    LET m == a.R.data
    IN  /\ RLe(Zero, m[1][1]) /\ RLe(Zero, m[2][2])
        /\ RLe(Zero, RSub(RMul(m[1][1], m[2][2]),
                          RMul(RDiv(RAdd(m[1][2], m[2][1]), Two),
                               RDiv(RAdd(m[1][2], m[2][1]), Two))))
        /\ Cols(a.X) = 3 => IsPositiveSemiDefinite(m)

\* C6, amended: given a seed R0 (D x D) that passes the
\* positive-semi-definiteness check, a seed t0 (1 x D) and a positive seed
\* s0, construction succeeds; after a successful construction R, t, s are
\* the seeds supplied, and the identity, the zero row and 1 for those not
\* supplied; get_registration_parameters() returns the current (s, R, t)
\* and changes nothing, so called right after construction it returns the
\* seeds.
C6_SeedsReturned ==
    /\ []((Called("__init__") /\ OrthogonalSeeds(args) /\ PassesCheck(args)) => Constructed)
    /\ []((Called("__init__") /\ Constructed) =>
            /\ R = (IF args.R.kind = "none" THEN Eye(D) ELSE args.R.data)
            /\ t = [shape |-> <<1, D>>,
                    row |-> IF args.t.kind = "none" THEN Zeros(1, D)[1] ELSE args.t.data[1]]
            /\ s = (IF args.s.kind = "none" THEN One ELSE args.s.val))
    /\ [][Called("get_registration_parameters")' =>
            /\ call'.ret.kind = "parameters"
            /\ call'.ret.s = s /\ call'.ret.R = R /\ call'.ret.t = t
            /\ UNCHANGED <<R, t, s, TY, Y, sigma2, q, diff, A, X_hat, YPY>>
            /\ UNCHANGED <<status, err, args, base, iteration, stats, toggles>>
            /\ Called("__init__") =>
                /\ args.R.kind = "array" => call'.ret.R = args.R.data
                /\ args.t.kind = "array" => call'.ret.t.row = args.t.data[1]
                /\ args.s.kind = "number" => call'.ret.s = args.s.val]_vars

\* get_registration_parameters(), called before any update, has returned the
\* three seeds supplied
C6_Witness ==
    /\ Called("get_registration_parameters")
    /\ P = Undef /\ A = Undef
    /\ OrthogonalSeeds(args)
    /\ call.ret.R = args.R.data /\ call.ret.R # Eye(D)
    /\ call.ret.t.row = args.t.data[1]
    /\ call.ret.s = args.s.val

\* C7: construction fails, leaving no instance, exactly when D is not 2 or
\* 3 (the error raised then, whatever the seeds), or a supplied R0 is not a
\* D x D matrix or fails the positive-semi-definiteness check, or a supplied
\* t0 is not 1 x D, or a supplied s0 is not a positive number, or all three
\* toggles are disabled; otherwise it succeeds.
C7_ConstructionRejects ==
    Called("__init__") =>
        LET d == Cols(args.X)
            badD == d \notin {2, 3}
            badR == /\ args.R.kind = "array"
                    /\ \/ args.R.shape # <<d, d>>
                       \/ ~IsPositiveSemiDefinite(args.R.data)
            badT == args.t.kind = "array" /\ args.t.shape # <<1, d>>
            badS == /\ args.s.kind # "none"
                    /\ ~(args.s.kind = "number" /\ args.s.val[1] > 0)
            noToggle == ~args.do_scale /\ ~args.do_rot /\ ~args.do_trans
        IN  /\ (status = "failed") = (badD \/ badR \/ badT \/ badS \/ noToggle)
            /\ (status = "ok") = ~(badD \/ badR \/ badT \/ badS \/ noToggle)
            /\ status = "failed" => err # "" /\ R = Undef /\ s = Undef /\ TY = Undef
            /\ badD => err = "ValueError: D"
            /\ (err = "AssertionError") = (~badD /\ ~badR /\ ~badT /\ ~badS /\ noToggle)

\* a construction with valid seeds and all three toggles disabled has failed
C7_Witness ==
    /\ Called("__init__")
    /\ status = "failed"
    /\ err = "AssertionError"
    /\ args.R.kind = "array" /\ args.s.kind = "number"

\* C8: once update_transform() has run with rotation enabled, the stored R
\* is a proper rotation: R^T * R is the identity and det(R) = +1.
C8_ProperRotation ==
    (Constructed /\ do_rot /\ A # Undef) => IsProperRotation(R)

\* update_transform() has produced a rotation other than the identity from
\* a cross-covariance matrix of full rank whose factors U, V have
\* det(U*V) = -1
C8_Witness ==
    /\ Called("update_transform")
    /\ do_rot
    /\ Det(A) # Zero
    /\ RLt(Det(A), Zero)
    /\ IsProperRotation(R)
    /\ R # Eye(D)

\* the centroids update_transform() used: what it subtracted from the first
\* target point, and the column sum of P^T * Y divided by Np
UsedTargetCentroid == Tab(D, LAMBDA j : RSub(X[1][j], X_hat[1][j]))
SourceCentroid ==
    Tab(D, LAMBDA j :
        RDiv(SumSeq(Tab(N, LAMBDA n :
                SumSeq(Tab(M, LAMBDA m : RMul(P[m][n], Y[m][j]))))), Np))
Ones(n) == Tab(n, LAMBDA i : One)

\* C9 as stated: the target centroid update_transform() centres the target
\* cloud with is the sum of the target points X divided by Np.
C9_PlainTargetCentroid ==
    Called("update_transform") => UsedTargetCentroid = WeightedMean(Ones(N), X, Np)

\* C9, amended: the target centroid is the column sum of the aggregate PX
\* divided by Np (the target points X themselves are not summed); X_hat is
\* X less that centroid; the source centroid is the column sum of P^T * Y
\* divided by Np; an enabled translation is the target centroid less
\* s * R^T * source centroid.
C9_WeightedTargetCentroid ==
    Called("update_transform") =>
        /\ UsedTargetCentroid = WeightedMean(Ones(Rows(PX)), PX, Np)
        /\ \A n \in 1..N : \A j \in 1..D :
            X_hat[n][j] = RSub(X[n][j], UsedTargetCentroid[j])
        /\ do_trans =>
            t.row = Tab(D, LAMBDA j :
                RSub(UsedTargetCentroid[j],
                     RMul(s, SumSeq(Tab(D, LAMBDA k : RMul(R[k][j], SourceCentroid[k]))))))

\* update_transform() has run on statistics whose aggregate PX does not sum
\* to the sum of the target points, and has set a translation from it
C9_Witness ==
    /\ Called("update_transform")
    /\ do_trans
    /\ UsedTargetCentroid = WeightedMean(Ones(Rows(PX)), PX, Np)
    /\ UsedTargetCentroid # WeightedMean(Ones(N), X, Np)
    /\ SourceCentroid # UsedTargetCentroid

\* C10: update_variance() changes only sigma2, q and diff, computing q from
\* the A, X_hat and YPY in place; after update_transform,
\* transform_point_cloud(), update_variance in that order the parameters are
\* those update_transform produced and TY is their image of Y; diff is
\* |q - q_previous| and never negative.
C10_VarianceFrame ==
    /\ [][Called("update_variance")' =>
            /\ UNCHANGED <<R, t, s, TY, A, X_hat, YPY>>
            /\ UNCHANGED <<status, err, args, base, iteration, stats, toggles>>
            /\ q' = RAdd(RDiv(RAdd(RSub(WeightedSquares(Pt1, X_hat),
                                        RMul(RMul(Two, s), TraceOfProduct(A, R))),
                                   RMul(RMul(s, s), YPY)),
                              RMul(Two, sigma2)),
                         RMul(RDiv(RMul(RInt(D), Np), Two), Log(sigma2)))
            /\ diff' = (IF RLe(q, q') THEN RSub(q', q) ELSE RSub(q, q'))]_vars
    /\ [](Constructed => diff[1] >= 0)
    /\ [](seq = 3 =>
            /\ s = est.s /\ R = est.R /\ t = est.t
            /\ TY = AffineImage(Y, est.s, est.R, est.t.row)
            /\ Called("get_registration_parameters") =>
                /\ call.ret.s = est.s /\ call.ret.R = est.R /\ call.ret.t = est.t)

\* an iteration in driver order has ended with a positive diff
C10_Witness ==
    /\ Called("update_variance")
    /\ seq = 3
    /\ diff[1] > 0
    /\ TY # Y

====
